---- MODULE Spec2Model ----
(***************************************************************************)
(* neoarch: the Design aggregate (node registry, relationship ledger,      *)
(* implied-use flag) and its builder operations, modelled from the Go      *)
(* package.  Nodes live on a heap `objs` (Go pointers are heap indexes);    *)
(* identifiers are strings built with the same concatenations as the code. *)
(***************************************************************************)
EXTENDS Integers, Sequences, FiniteSets, TLC

VARIABLES
    objs,               \* the heap of Node values; objs[i] is the *Node at address i
    nodes,              \* Design.nodes: map from key to heap address
    relationships,      \* Design.relationships: the ledger
    impliedUseEnabled,  \* Design.impliedUseEnabled
    refs,               \* addresses the caller holds as results of NodeReference
    relationshipsOn,    \* the ledger of the same call sequence run with inference enabled
    nRelCalls,          \* number of relationship-declaring calls made so far
    lastCall,           \* the last builder call and the addRelationship calls it made
    store,              \* the property graph held by the Neo4j database
    nStoreCalls,        \* number of SaveToNeo4j and DeleteFromNeo4j calls made so far
    returned            \* what the last call of SaveToNeo4j, DeleteFromNeo4j or
                        \* ToStructurizrDSL returned, and the statements it ran

vars == <<objs, nodes, relationships, impliedUseEnabled, refs, relationshipsOn,
          nRelCalls, lastCall, store, nStoreCalls, returned>>

-----------------------------------------------------------------------------
(* Bounds of the exploration *)

MaxNodes == 4
MaxRelCalls == 1
\* Uses calls of a caller that repeats its declarations.
MaxUsesCalls == 2

-----------------------------------------------------------------------------
(* Enumerations *)

NodeTypeUnknown == "Unknown"
NodeTypeDesign == "Design"
NodeTypePerson == "Person"
NodeTypeSystem == "System"
NodeTypeContainer == "Container"
NodeTypeComponent == "Component"

RelUses == "USES"
RelImpliedUse == "IMPLIED_USE"
RelBelongsTo == "BELONGS_TO"
RelInteractsWith == "INTERACTS_WITH"

\* The nil pointer / nil interface value.
NilRef == 0
\* The *Design itself, passed as an INode (it is not a Node of the heap).
DesignRef == 0 - 1
\* The heap address of the root Node that NewDesign stores in the registry.
RootAddr == 1
\* A &NodeReference{ID: ForeignID} the caller made itself (not a Node of the heap).
ForeignRef == 0 - 2
ForeignID == "elsewhere"

\* Inputs of the builder calls.
DesignName == "x"
DesignDescription == "design"
PersonNames == {"u"}
SystemIds == {"a", "b"}
ContainerNames == {"c"}
ComponentIds == {"k"}
CustomNames == {"m"}
CustomLabels == {"Queue"}
NodeDescription == "node"
Descriptions == {"uses"}

\* Design.ID as NewDesign sets it.
DesignID == "design_" \o DesignName

\* Identifiers handed to NodeReference: the full ID of Container "c" of System
\* "a", which may be referenced before or after that Container is created.
RefIds == {DesignID \o "." \o DesignID \o ".a." \o DesignID \o ".a.c"}

-----------------------------------------------------------------------------
(* Identifier scheme *)

\* INode.GetID
GetID(os, h) ==
    IF h = DesignRef THEN DesignID
    ELSE IF h = ForeignRef THEN ForeignID
    ELSE os[h].ID

\* NewNodeWithIdAndParent; goType/system/container are the fields of the
\* wrapper struct (Person, System, Container, Component, CustomComponent)
\* that embeds the node.
NewNodeWithIdAndParent(os, id, parent, name, description, nodeType) ==
    [ID          |-> IF parent # NilRef THEN GetID(os, parent) \o "." \o id ELSE id,
     Name        |-> name,
     Labels      |-> <<>>,
     Description |-> description,
     NodeType    |-> nodeType,
     Tags        |-> <<>>,
     IsExternal  |-> FALSE,
     ParentNode  |-> parent]

\* Node.FullId / Design.FullId
RECURSIVE FullId(_, _)
FullId(os, h) ==
    IF h = NilRef THEN ""
    ELSE IF h = DesignRef THEN DesignID
    ELSE IF h = ForeignRef THEN ForeignID
    ELSE IF os[h].ParentNode # NilRef
         THEN FullId(os, os[h].ParentNode) \o "." \o os[h].ID
         ELSE os[h].ID

\* The wrapper struct around an embedded *Node.
Wrap(node, goType, system, container) ==
    [ID |-> node.ID, Name |-> node.Name, Labels |-> node.Labels,
     Description |-> node.Description, NodeType |-> node.NodeType,
     Tags |-> node.Tags, IsExternal |-> node.IsExternal,
     ParentNode |-> node.ParentNode,
     GoType |-> goType, system |-> system, container |-> container]

-----------------------------------------------------------------------------
(* Ledger *)

Relationship(startID, endID, relType, desc) ==
    [StartID |-> startID, EndID |-> endID, Type |-> relType, Description |-> desc]

\* One call of addRelationship, as the handlers issue it.
Req(startNode, endNode, relType, desc) ==
    [start |-> startNode, end |-> endNode, Type |-> relType, Description |-> desc]

\* addRelationship that records an entry only once per (start, end, type).
addRelationshipDedup(os, rels, enabled, startNode, endNode, relType, desc) ==
    IF ~enabled /\ relType = RelImpliedUse THEN rels
    ELSE IF \/ /\ relType = RelImpliedUse
               /\ \E i \in 1..Len(rels) :
                     /\ rels[i].StartID = FullId(os, endNode)
                     /\ rels[i].EndID = FullId(os, startNode)
                     /\ rels[i].Type = RelBelongsTo
            \/ \E i \in 1..Len(rels) :
                     /\ rels[i].StartID = FullId(os, startNode)
                     /\ rels[i].EndID = FullId(os, endNode)
                     /\ rels[i].Type = relType
         THEN rels
         ELSE Append(rels, Relationship(FullId(os, startNode), FullId(os, endNode),
                                        relType, desc))

\* addRelationship without the impliedUseEnabled test.
addRelationshipAlways(os, rels, enabled, startNode, endNode, relType, desc) ==
    IF /\ relType = RelImpliedUse
       /\ \E i \in 1..Len(rels) :
             /\ rels[i].StartID = FullId(os, endNode)
             /\ rels[i].EndID = FullId(os, startNode)
             /\ rels[i].Type = RelBelongsTo
    THEN rels
    ELSE Append(rels, Relationship(FullId(os, startNode), FullId(os, endNode),
                                   relType, desc))

\* addRelationship without the scan for a BELONGS_TO entry.
addRelationshipNoScan(os, rels, enabled, startNode, endNode, relType, desc) ==
    IF ~enabled /\ relType = RelImpliedUse THEN rels
    ELSE Append(rels, Relationship(FullId(os, startNode), FullId(os, endNode),
                                   relType, desc))

\* addRelationship whose disabled flag returns early for every type.
addRelationshipGuardAll(os, rels, enabled, startNode, endNode, relType, desc) ==
    IF ~enabled THEN rels
    ELSE IF /\ relType = RelImpliedUse
            /\ \E i \in 1..Len(rels) :
                  /\ rels[i].StartID = FullId(os, endNode)
                  /\ rels[i].EndID = FullId(os, startNode)
                  /\ rels[i].Type = RelBelongsTo
         THEN rels
         ELSE Append(rels, Relationship(FullId(os, startNode), FullId(os, endNode),
                                        relType, desc))

\* addRelationship that puts the new entry in front of the ledger.
addRelationshipPrepend(os, rels, enabled, startNode, endNode, relType, desc) ==
    IF ~enabled /\ relType = RelImpliedUse THEN rels
    ELSE IF /\ relType = RelImpliedUse
            /\ \E i \in 1..Len(rels) :
                  /\ rels[i].StartID = FullId(os, endNode)
                  /\ rels[i].EndID = FullId(os, startNode)
                  /\ rels[i].Type = RelBelongsTo
         THEN rels
         ELSE <<Relationship(FullId(os, startNode), FullId(os, endNode), relType, desc)>>
              \o rels

\* Design.addRelationship: the ledger after the call.
addRelationship(os, rels, enabled, startNode, endNode, relType, desc) ==
    IF ~enabled /\ relType = RelImpliedUse THEN rels
    ELSE IF /\ relType = RelImpliedUse
            /\ \E i \in 1..Len(rels) :
                  /\ rels[i].StartID = FullId(os, endNode)
                  /\ rels[i].EndID = FullId(os, startNode)
                  /\ rels[i].Type = RelBelongsTo
         THEN rels
         ELSE Append(rels, Relationship(FullId(os, startNode), FullId(os, endNode),
                                        relType, desc))

\* The addRelationship calls of one handler, applied in order.
RECURSIVE ApplyReqs(_, _, _, _)
ApplyReqs(os, rels, enabled, reqs) ==
    IF reqs = <<>> THEN rels
    ELSE ApplyReqs(os,
                   addRelationship(os, rels, enabled, Head(reqs).start, Head(reqs).end,
                                   Head(reqs).Type, Head(reqs).Description),
                   enabled, Tail(reqs))

\* The same calls with the ledger before and after each of them.
RECURSIVE TraceReqs(_, _, _, _)
TraceReqs(os, rels, enabled, reqs) ==
    IF reqs = <<>> THEN <<>>
    ELSE LET r    == Head(reqs)
             post == addRelationship(os, rels, enabled, r.start, r.end, r.Type,
                                     r.Description)
         IN  <<[StartID |-> FullId(os, r.start), EndID |-> FullId(os, r.end),
                Type |-> r.Type, Description |-> r.Description,
                pre |-> rels, post |-> post]>>
             \o TraceReqs(os, post, enabled, Tail(reqs))

-----------------------------------------------------------------------------
(* State after NewDesign *)

NoArg == [at |-> NilRef, dyn |-> "nil"]

\* A database without nodes and relationships.
EmptyStore == [nodes |-> {}, edges |-> {}]

\* No statement of the call was made to fail.
NoFault == [at |-> 0, err |-> ""]

\* The builder calls return no error, run no statement and return no text.
NoValue == [err |-> "", issued |-> <<>>, text |-> <<>>, fault |-> NoFault]

Call(op, self, arg, id, new, adds) ==
    [op |-> op, self |-> self, arg |-> arg, id |-> id, new |-> new,
     enabled |-> impliedUseEnabled, adds |-> adds]

Init ==
    /\ objs = <<[ID |-> DesignID, Name |-> DesignName, Labels |-> <<>>,
                 Description |-> DesignDescription, NodeType |-> NodeTypeDesign,
                 Tags |-> <<"design">>, IsExternal |-> FALSE, ParentNode |-> NilRef,
                 GoType |-> "Node", system |-> NilRef, container |-> NilRef]>>
    /\ nodes = [k \in {DesignID} |-> RootAddr]
    /\ relationships = <<>>
    /\ impliedUseEnabled = FALSE
    /\ refs = {}
    /\ relationshipsOn = <<>>
    /\ nRelCalls = 0
    /\ lastCall = [op |-> "NewDesign", self |-> DesignRef, arg |-> NoArg, id |-> DesignName,
                   new |-> RootAddr, enabled |-> FALSE, adds |-> <<>>]
    /\ store = EmptyStore
    /\ nStoreCalls = 0
    /\ returned = NoValue

\* m[k] = v on a Go map.
MapSet(m, k, v) == [x \in (DOMAIN m) \cup {k} |-> IF x = k THEN v ELSE m[x]]

\* The address the next allocated node gets.
NewAddr == Len(objs) + 1

\* A factory: the new node is allocated, registered under its ID and the
\* handler's addRelationship calls are made.
CreateUpTo(max, op, self, id, node, reqs) ==
    LET new == NewAddr
        os  == Append(objs, node)
    IN  /\ Len(objs) - 1 < max
        /\ objs' = os
        /\ nodes' = MapSet(nodes, node.ID, new)
        /\ relationships' = ApplyReqs(os, relationships, impliedUseEnabled, reqs)
        /\ relationshipsOn' = ApplyReqs(os, relationshipsOn, TRUE, reqs)
        /\ lastCall' = Call(op, self, NoArg, id, new,
                            TraceReqs(os, relationships, impliedUseEnabled, reqs))
        /\ returned' = NoValue
        /\ UNCHANGED <<impliedUseEnabled, refs, nRelCalls, store, nStoreCalls>>

Create(op, self, id, node, reqs) == CreateUpTo(MaxNodes, op, self, id, node, reqs)

\* Addresses of the wrappers of one Go type the caller holds.
Of(goType) == {i \in 1..Len(objs) : objs[i].GoType = goType}

\* Design.Person
Person ==
    \E name \in PersonNames :
        LET reqs == <<Req(NewAddr, DesignRef, RelBelongsTo, "Belongs to")>>
        IN  Create("Design.Person", DesignRef, "person_" \o name,
                   Wrap(NewNodeWithIdAndParent(objs, "person_" \o name, DesignRef, name,
                                               NodeDescription, NodeTypePerson),
                        "Person", NilRef, NilRef),
                   reqs)

\* Design.SystemWithId with an id of ids
SystemWithIdIn(max, ids) ==
    \E id \in ids :
        LET reqs == <<Req(NewAddr, DesignRef, RelBelongsTo, "Belongs to")>>
        IN  CreateUpTo(max, "Design.SystemWithId", DesignRef, id,
                   Wrap(NewNodeWithIdAndParent(objs, id, DesignRef, id,
                                               NodeDescription, NodeTypeSystem),
                        "System", NilRef, NilRef),
                   reqs)

\* Design.SystemWithId (Design.System(name) is SystemWithId(name, name))
SystemWithId == SystemWithIdIn(MaxNodes, SystemIds)

\* System.Container with a name of names
ContainerIn(max, names) ==
    \E s \in Of("System"), name \in names :
        LET reqs == <<Req(NewAddr, s, RelBelongsTo, "Is part of")>>
        IN  CreateUpTo(max, "System.Container", s, name,
                   Wrap(NewNodeWithIdAndParent(objs, name, s, name,
                                               NodeDescription, NodeTypeContainer),
                        "Container", s, NilRef),
                   reqs)

\* System.Container
Container == ContainerIn(MaxNodes, ContainerNames)

\* Container.ComponentWithId, by a caller that declares up to max elements
ComponentWithIdUpTo(max) ==
    \E c \in Of("Container"), id \in ComponentIds :
        LET reqs == <<Req(NewAddr, c, RelBelongsTo, "Is part of")>>
        IN  CreateUpTo(max, "Container.ComponentWithId", c, id,
                   Wrap(NewNodeWithIdAndParent(objs, id, c, id,
                                               NodeDescription, NodeTypeComponent),
                        "Component", NilRef, c),
                   reqs)

\* Container.ComponentWithId (Container.Component(name) is ComponentWithId(name, name))
ComponentWithId == ComponentWithIdUpTo(MaxNodes)

\* Container.Custom with a label of labels
ContainerCustomIn(labels) ==
    \E c \in Of("Container"), label \in labels, name \in CustomNames :
        LET reqs == <<Req(NewAddr, c, RelBelongsTo, "Belongs to")>>
        IN  Create("Container.Custom", c, name,
                   Wrap(NewNodeWithIdAndParent(objs, name, c, name,
                                               NodeDescription, label),
                        "CustomComponent", NilRef, c),
                   reqs)

\* Container.Custom
ContainerCustom == ContainerCustomIn(CustomLabels)

\* Component.Custom
ComponentCustom ==
    \E c \in Of("Component"), label \in CustomLabels, name \in CustomNames :
        LET reqs == <<Req(NewAddr, c, RelBelongsTo, "Belongs to")>>
        IN  Create("Component.Custom", c, name,
                   Wrap(NewNodeWithIdAndParent(objs, name, c, name,
                                               NodeDescription, label),
                        "CustomComponent", NilRef, objs[c].container),
                   reqs)

\* CustomComponent.CustomWithId (CustomComponent.Custom(label, name) is
\* CustomWithId(name, label, name))
CustomWithId ==
    \E c \in Of("CustomComponent"), label \in CustomLabels, id \in CustomNames :
        LET reqs == <<Req(NewAddr, c, RelBelongsTo, "Belongs to")>>
        IN  Create("CustomComponent.CustomWithId", c, id,
                   Wrap(NewNodeWithIdAndParent(objs, id, c, id,
                                               NodeDescription, label),
                        "CustomComponent", NilRef, objs[c].container),
                   reqs)

\* NodeReference that registers a new stub without looking the id up.
ReferenceWithoutLookup(id) ==
    LET new == NewAddr
    IN  /\ Len(objs) - 1 < MaxNodes
        /\ objs' = Append(objs,
               [ID |-> id, Name |-> id, Labels |-> <<>>,
                Description |-> "Unknown node", NodeType |-> NodeTypeUnknown,
                Tags |-> <<>>, IsExternal |-> FALSE, ParentNode |-> NilRef,
                GoType |-> "Node", system |-> NilRef, container |-> NilRef])
        /\ nodes' = MapSet(nodes, id, new)
        /\ refs' = refs \cup {new}
        /\ lastCall' = Call("Design.NodeReference", DesignRef, NoArg, id, new, <<>>)
        /\ returned' = NoValue
        /\ UNCHANGED <<relationships, impliedUseEnabled, relationshipsOn,
                       nRelCalls, store, nStoreCalls>>

\* Design.NodeReference(id)
Reference(id) ==
        IF id \in DOMAIN nodes
        THEN /\ refs' = refs \cup {nodes[id]}
             /\ lastCall' = Call("Design.NodeReference", DesignRef, NoArg, id, nodes[id], <<>>)
             /\ returned' = NoValue
             /\ UNCHANGED <<objs, nodes, relationships, impliedUseEnabled,
                            relationshipsOn, nRelCalls, store, nStoreCalls>>
        ELSE LET new == NewAddr
             IN  /\ Len(objs) - 1 < MaxNodes
                 /\ objs' = Append(objs,
                        [ID |-> id, Name |-> id, Labels |-> <<>>,
                         Description |-> "Unknown node", NodeType |-> NodeTypeUnknown,
                         Tags |-> <<>>, IsExternal |-> FALSE, ParentNode |-> NilRef,
                         GoType |-> "Node", system |-> NilRef, container |-> NilRef])
                 /\ nodes' = MapSet(nodes, id, new)
                 /\ refs' = refs \cup {new}
                 /\ lastCall' = Call("Design.NodeReference", DesignRef, NoArg, id, new, <<>>)
                 /\ returned' = NoValue
                 /\ UNCHANGED <<relationships, impliedUseEnabled, relationshipsOn,
                                nRelCalls, store, nStoreCalls>>

NodeReference == \E id \in RefIds : Reference(id)

-----------------------------------------------------------------------------
(* Relationship-declaring methods.  Each operator is the sequence of      *)
(* addRelationship calls its method makes; n and p are INode arguments:   *)
(* [at |-> address, dyn |-> dynamic Go type].                              *)

\* Person.InteractsWith
PersonInteractsWith(os, p, other, desc) == <<Req(p, other.at, RelInteractsWith, desc)>>

\* Person.Uses
PersonUses(os, p, n, desc) == <<Req(p, n.at, RelUses, desc)>>

\* System.ImpliedUse
SystemImpliedUse(os, s, p, desc) == <<Req(s, p.at, RelImpliedUse, desc)>>

\* System.ImpliedUsedBy
SystemImpliedUsedBy(os, s, p, desc) == <<Req(p.at, s, RelImpliedUse, desc)>>

\* System.UsedBy
SystemUsedBy(os, s, p, desc) == <<Req(p.at, s, RelUses, desc)>>

\* System.Uses
SystemUses(os, s, n, desc) == <<Req(s, n.at, RelUses, desc)>>

\* The *System held in a wrapper's field, as an INode.
AsSystem(s) == [at |-> s, dyn |-> "System"]

\* Container.UsedBy with the implied edge running from the system to the actor.
ContainerUsedByReversed(os, c, p, desc) ==
    <<Req(p.at, c, RelUses, desc)>>
    \o SystemImpliedUse(os, os[c].system, p, desc)

\* Container.UsedBy
ContainerUsedBy(os, c, p, desc) ==
    <<Req(p.at, c, RelUses, desc)>>
    \o SystemImpliedUsedBy(os, os[c].system, p, desc)

\* Container.Uses without the edge between the two owning systems.
ContainerUsesNoLift(os, c, n, desc) ==
    <<Req(c, n.at, RelUses, desc)>>
    \o SystemImpliedUse(os, os[c].system, n, desc)

\* Container.Uses
ContainerUses(os, c, n, desc) ==
    <<Req(c, n.at, RelUses, desc)>>
    \o SystemImpliedUse(os, os[c].system, n, desc)
    \o (IF /\ n.dyn = "Container"
           /\ os[n.at].system # NilRef
           /\ os[os[n.at].system].ID # os[os[c].system].ID
        THEN SystemImpliedUse(os, os[c].system, AsSystem(os[n.at].system),
                              desc \o " (implied " \o os[n.at].ID \o "--"
                                   \o os[os[c].system].ID \o ")")
        ELSE <<>>)
    \o (IF /\ n.dyn = "Component"
           /\ os[n.at].container # NilRef
           /\ os[os[n.at].container].system # NilRef
           /\ os[os[os[n.at].container].system].ID # os[os[c].system].ID
        THEN SystemImpliedUse(os, os[c].system,
                              AsSystem(os[os[n.at].container].system), desc)
        ELSE <<>>)

\* Container.ImpliedUsedBy
ContainerImpliedUsedBy(os, c, p, desc) ==
    <<Req(p.at, c, RelImpliedUse, desc)>>
    \o SystemImpliedUsedBy(os, os[c].system, p, desc)

\* CustomComponent.Uses
CustomComponentUses(os, c, n, desc) == <<Req(c, n.at, RelUses, desc)>>

\* CustomComponent.UsedBy
CustomComponentUsedBy(os, c, p, desc) ==
    <<Req(p.at, c, RelUses, desc)>>
    \o ContainerImpliedUsedBy(os, os[c].container, p, desc)

\* Component.Uses
ComponentUses(os, c, n, desc) ==
    <<Req(c, n.at, RelUses, desc)>>
    \o (IF n.dyn = "Container" /\ os[n.at].system # NilRef
        THEN SystemImpliedUsedBy(os, os[os[c].container].system,
                                 AsSystem(os[n.at].system), desc)
        ELSE <<>>)
    \o (IF /\ n.dyn = "Component"
           /\ os[n.at].container # NilRef
           /\ os[os[n.at].container].system # NilRef
        THEN SystemImpliedUsedBy(os, os[os[c].container].system,
                                 AsSystem(os[os[n.at].container].system), desc)
        ELSE <<>>)

\* Component.UsedBy
ComponentUsedBy(os, c, p, desc) ==
    <<Req(p.at, c, RelUses, desc)>>
    \o ContainerImpliedUsedBy(os, os[c].container, p, desc)

\* The INode values the caller can pass: the Design, every wrapper it was
\* handed by a factory, every *Node it was handed by NodeReference.
INodes ==
    {[at |-> DesignRef, dyn |-> "Design"]}
    \cup {[at |-> i, dyn |-> objs[i].GoType] : i \in {j \in 1..Len(objs) : objs[j].GoType # "Node"}}
    \cup {[at |-> i, dyn |-> "Node"] : i \in refs}

\* The *Person values the caller can pass.
Persons == {n \in INodes : n.dyn = "Person"}

\* A relationship-declaring call, the caller making at most max of them: its
\* addRelationship calls are made in order.
DeclareUpTo(max, op, self, arg, reqs) ==
    /\ nRelCalls < max
    /\ relationships' = ApplyReqs(objs, relationships, impliedUseEnabled, reqs)
    /\ relationshipsOn' = ApplyReqs(objs, relationshipsOn, TRUE, reqs)
    /\ nRelCalls' = nRelCalls + 1
    /\ lastCall' = Call(op, self, arg, "", NilRef,
                        TraceReqs(objs, relationships, impliedUseEnabled, reqs))
    /\ returned' = NoValue
    /\ UNCHANGED <<objs, nodes, impliedUseEnabled, refs, store, nStoreCalls>>

Declare(op, self, arg, reqs) == DeclareUpTo(MaxRelCalls, op, self, arg, reqs)

CallPersonInteractsWith ==
    \E p \in Of("Person"), other \in Persons, desc \in Descriptions :
        Declare("Person.InteractsWith", p, other, PersonInteractsWith(objs, p, other, desc))

CallPersonUses ==
    \E p \in Of("Person"), n \in INodes, desc \in Descriptions :
        Declare("Person.Uses", p, n, PersonUses(objs, p, n, desc))

CallSystemImpliedUse ==
    \E s \in Of("System"), p \in INodes, desc \in Descriptions :
        Declare("System.ImpliedUse", s, p, SystemImpliedUse(objs, s, p, desc))

CallSystemImpliedUsedBy ==
    \E s \in Of("System"), p \in INodes, desc \in Descriptions :
        Declare("System.ImpliedUsedBy", s, p, SystemImpliedUsedBy(objs, s, p, desc))

CallSystemUsedBy ==
    \E s \in Of("System"), p \in Persons, desc \in Descriptions :
        Declare("System.UsedBy", s, p, SystemUsedBy(objs, s, p, desc))

CallSystemUses ==
    \E s \in Of("System"), n \in INodes, desc \in Descriptions :
        Declare("System.Uses", s, n, SystemUses(objs, s, n, desc))

CallContainerUsedBy ==
    \E c \in Of("Container"), p \in INodes, desc \in Descriptions :
        Declare("Container.UsedBy", c, p, ContainerUsedBy(objs, c, p, desc))

CallContainerUses ==
    \E c \in Of("Container"), n \in INodes, desc \in Descriptions :
        Declare("Container.Uses", c, n, ContainerUses(objs, c, n, desc))

CallContainerImpliedUsedBy ==
    \E c \in Of("Container"), p \in INodes, desc \in Descriptions :
        Declare("Container.ImpliedUsedBy", c, p, ContainerImpliedUsedBy(objs, c, p, desc))

CallCustomComponentUses ==
    \E c \in Of("CustomComponent"), n \in INodes, desc \in Descriptions :
        Declare("CustomComponent.Uses", c, n, CustomComponentUses(objs, c, n, desc))

CallCustomComponentUsedBy ==
    \E c \in Of("CustomComponent"), p \in INodes, desc \in Descriptions :
        Declare("CustomComponent.UsedBy", c, p, CustomComponentUsedBy(objs, c, p, desc))

CallComponentUses ==
    \E c \in Of("Component"), n \in INodes, desc \in Descriptions :
        Declare("Component.Uses", c, n, ComponentUses(objs, c, n, desc))

CallComponentUsedBy ==
    \E c \in Of("Component"), p \in INodes, desc \in Descriptions :
        Declare("Component.UsedBy", c, p, ComponentUsedBy(objs, c, p, desc))

\* Design.EnableImpliedUse
EnableImpliedUse ==
    \E enable \in BOOLEAN :
        /\ impliedUseEnabled' = enable
        /\ UNCHANGED <<objs, nodes, relationships, refs, relationshipsOn, nRelCalls,
                       lastCall, store, nStoreCalls, returned>>

\* The calls that build the model.
Build ==
    \/ Person
    \/ SystemWithId
    \/ Container
    \/ ComponentWithId
    \/ ContainerCustom
    \/ ComponentCustom
    \/ CustomWithId
    \/ NodeReference
    \/ CallPersonInteractsWith
    \/ CallPersonUses
    \/ CallSystemImpliedUse
    \/ CallSystemImpliedUsedBy
    \/ CallSystemUsedBy
    \/ CallSystemUses
    \/ CallContainerUsedBy
    \/ CallContainerUses
    \/ CallContainerImpliedUsedBy
    \/ CallCustomComponentUses
    \/ CallCustomComponentUsedBy
    \/ CallComponentUses
    \/ CallComponentUsedBy

Next ==
    \/ Build
    \/ EnableImpliedUse

Spec == Init /\ [][Next]_vars

\* A Design on which EnableImpliedUse is never called.
NextDefault == Build

SpecDefault == Init /\ [][NextDefault]_vars

-----------------------------------------------------------------------------
(* A caller that declares the elements and then makes up to MaxUsesCalls   *)
(* Uses calls, possibly the same call twice.                               *)

UsesPerson ==
    \E p \in Of("Person"), n \in INodes, desc \in Descriptions :
        DeclareUpTo(MaxUsesCalls, "Person.Uses", p, n, PersonUses(objs, p, n, desc))

UsesContainer ==
    \E c \in Of("Container"), n \in INodes, desc \in Descriptions :
        DeclareUpTo(MaxUsesCalls, "Container.Uses", c, n, ContainerUses(objs, c, n, desc))

NextLedger ==
    \/ Person
    \/ SystemWithId
    \/ Container
    \/ EnableImpliedUse
    \/ UsesPerson
    \/ UsesContainer

SpecLedger == Init /\ [][NextLedger]_vars

-----------------------------------------------------------------------------
(* Attributes of a declared element *)

\* Tags one element is given.
MaxTags == 1

\* Tags handed to Tag.
TagNames == {"ext-api"}

\* The wrappers (Person, System, Container, ...) the caller holds.
Wrappers == {i \in 1..Len(objs) : objs[i].GoType # "Node"}

\* A method that changes the embedded Node of a wrapper and nothing else.
Mutate(op, h, id, node) ==
    /\ objs' = [objs EXCEPT ![h] = node]
    /\ lastCall' = Call(op, h, NoArg, id, NilRef, <<>>)
    /\ returned' = NoValue
    /\ UNCHANGED <<nodes, relationships, impliedUseEnabled, refs, relationshipsOn,
                   nRelCalls, store, nStoreCalls>>

\* Node.Tag
Tag ==
    \E h \in Wrappers, tag \in TagNames :
        /\ Len(objs[h].Tags) < MaxTags
        /\ Mutate("Node.Tag", h, tag, [objs[h] EXCEPT !.Tags = Append(@, tag)])

\* Node.External
External ==
    \E h \in Wrappers :
        Mutate("Node.External", h, "", [objs[h] EXCEPT !.IsExternal = TRUE])

\* Node.Internal
Internal ==
    \E h \in Wrappers :
        Mutate("Node.Internal", h, "", [objs[h] EXCEPT !.IsExternal = FALSE])

-----------------------------------------------------------------------------
(* Graph materialization.  A stored node is [labels, props] with its id   *)
(* among the props; MERGE never makes a second node with the labels and id *)
(* of an existing one and no statement changes labels or id, so a stored   *)
(* relationship names its end nodes by that pair.                          *)

MaxStoreCalls == 2

\* Errors a statement can return.
StoreErrors == {"unavailable", "deadlock"}

Range(seq) == {seq[i] : i \in 1..Len(seq)}

\* The replacement of - : space " ' by _ in a tag, on the tags in use.
SanitizeTag(tag) == IF tag = "ext-api" THEN "ext_api" ELSE tag

\* The registry's nodes (the values of Design.nodes).
Registry(reg) == {reg[k] : k \in DOMAIN reg}

\* The MERGE ... ON CREATE SET ... ON MATCH SET statement of one registry node.
NodeStatement(os, h) ==
    LET tags == {SanitizeTag(t) : t \in Range(os[h].Tags)}
        keys == {"name", "description", "nodeType", "tags"}
                 \cup {"tag_" \o t : t \in tags}
                 \cup (IF os[h].IsExternal THEN {"external"} ELSE {})
    IN  [kind   |-> "node",
         labels |-> {os[h].NodeType} \cup Range(os[h].Labels),
         id     |-> FullId(os, h),
         set    |-> [k \in keys |->
                       IF k = "name" THEN os[h].Name
                       ELSE IF k = "description" THEN os[h].Description
                       ELSE IF k = "nodeType" THEN os[h].NodeType
                       ELSE IF k = "tags" THEN os[h].Tags
                       ELSE IF k = "external" THEN os[h].IsExternal
                       ELSE CHOOSE t \in tags : k = "tag_" \o t]]

\* The node statements of a save.  The code ranges over the map in an order of
\* Go's choosing; the statements of two registry nodes touch different stored
\* nodes, so the lowest address first gives the one resulting graph.
RECURSIVE NodeStatements(_, _)
NodeStatements(os, hs) ==
    IF hs = {} THEN <<>>
    ELSE LET h == CHOOSE x \in hs : \A y \in hs : x <= y
         IN  <<NodeStatement(os, h)>> \o NodeStatements(os, hs \ {h})

\* A scan that looks the endpoint up under its registry key.
EndpointLabelsByKey(os, reg, id) ==
    IF id \in DOMAIN reg THEN {os[reg[id]].NodeType} ELSE {"Unknown"}

\* The labels the scan of the registry can leave for an endpoint: the kind of
\* the last node of the range whose full ID is the endpoint's, or Unknown.
EndpointLabels(os, reg, id) ==
    LET hit == {h \in Registry(reg) : FullId(os, h) = id}
    IN  IF hit = {} THEN {"Unknown"} ELSE {os[h].NodeType : h \in hit}

\* The three MERGE clauses of one ledger entry.
RelStatement(rel, startNodeLabel, endNodeLabel) ==
    [kind |-> "rel", startNodeLabel |-> startNodeLabel, startID |-> rel.StartID,
     endNodeLabel |-> endNodeLabel, endID |-> rel.EndID, type |-> rel.Type,
     desc |-> rel.Description]

\* The relationship statements a save can issue for the ledger, one sequence
\* per outcome of the scans.
RECURSIVE RelStatements(_, _, _)
RelStatements(os, reg, rels) ==
    IF rels = <<>> THEN {<<>>}
    ELSE LET rel == Head(rels)
             \* one scan settles both labels, so equal IDs get equal labels
             labels == {l \in EndpointLabels(os, reg, rel.StartID)
                                \X EndpointLabels(os, reg, rel.EndID) :
                           rel.StartID = rel.EndID => l[1] = l[2]}
         IN  {<<RelStatement(rel, l[1], l[2])>> \o rest :
                 l \in labels, rest \in RelStatements(os, reg, Tail(rels))}

\* The stored nodes a node pattern (n:labels { id: $id }) matches.
Matches(g, labels, id) ==
    {n \in g.nodes : labels \subseteq n.labels /\ n.props.id = id}

NodeKey(n) == [labels |-> n.labels, id |-> n.props.id]

\* MERGE (n:labels { id: $id })
Merge(g, labels, id) ==
    IF Matches(g, labels, id) # {} THEN g
    ELSE [g EXCEPT !.nodes = @ \cup {[labels |-> labels, props |-> [k \in {"id"} |-> id]]}]

\* SET n.k = v for every k of set.
SetProps(props, set) ==
    [k \in (DOMAIN props) \cup (DOMAIN set) |-> IF k \in DOMAIN set THEN set[k] ELSE props[k]]

\* Statements whose relationship MERGE leaves the description out of the
\* pattern and sets it afterwards.
RunStatementSetDescription(g, st) ==
    IF st.kind = "node"
    THEN LET m   == Merge(g, st.labels, st.id)
             hit == Matches(m, st.labels, st.id)
         IN  [m EXCEPT !.nodes = {IF n \in hit
                                  THEN [n EXCEPT !.props = SetProps(@, st.set)]
                                  ELSE n : n \in m.nodes}]
    ELSE LET m      == Merge(Merge(g, {st.startNodeLabel}, st.startID),
                             {st.endNodeLabel}, st.endID)
             starts == Matches(m, {st.startNodeLabel}, st.startID)
             ends   == Matches(m, {st.endNodeLabel}, st.endID)
             new    == {[start |-> NodeKey(a), end |-> NodeKey(b), type |-> st.type,
                         description |-> st.desc] : a \in starts, b \in ends}
         IN  [m EXCEPT !.edges =
                 {e \in @ : ~\E f \in new : /\ f.start = e.start
                                            /\ f.end = e.end
                                            /\ f.type = e.type}
                 \cup new]

\* The graph after one statement.
RunStatement(g, st) ==
    IF st.kind = "node"
    THEN LET m   == Merge(g, st.labels, st.id)
             hit == Matches(m, st.labels, st.id)
         IN  [m EXCEPT !.nodes = {IF n \in hit
                                  THEN [n EXCEPT !.props = SetProps(@, st.set)]
                                  ELSE n : n \in m.nodes}]
    ELSE LET m      == Merge(Merge(g, {st.startNodeLabel}, st.startID),
                             {st.endNodeLabel}, st.endID)
             starts == Matches(m, {st.startNodeLabel}, st.startID)
             ends   == Matches(m, {st.endNodeLabel}, st.endID)
         IN  [m EXCEPT !.edges = @ \cup
                 {[start |-> NodeKey(a), end |-> NodeKey(b), type |-> st.type,
                   description |-> st.desc] : a \in starts, b \in ends}]

RECURSIVE RunStatements(_, _)
RunStatements(g, sts) ==
    IF sts = <<>> THEN g ELSE RunStatements(RunStatement(g, Head(sts)), Tail(sts))

\* The faults the database can answer a call of n statements with.
Faults(n) == {NoFault} \cup [at : 1..n, err : StoreErrors]

\* A write transaction that goes on to the next statement after an error.
ExecuteWriteContinue(op, sts, fault, after) ==
    /\ nStoreCalls < MaxStoreCalls
    /\ nStoreCalls' = nStoreCalls + 1
    /\ store' = IF fault.at = 0 THEN after ELSE store
    /\ returned' = [err |-> fault.err, issued |-> sts, text |-> <<>>, fault |-> fault]
    /\ lastCall' = Call(op, DesignRef, NoArg, "", NilRef, <<>>)
    /\ UNCHANGED <<objs, nodes, relationships, impliedUseEnabled, refs,
                   relationshipsOn, nRelCalls>>

\* One write transaction: the statements up to the first one that returns an
\* error are issued; the transaction commits if none does and is rolled back
\* otherwise.
ExecuteWrite(op, sts, fault, after) ==
    /\ nStoreCalls < MaxStoreCalls
    /\ nStoreCalls' = nStoreCalls + 1
    /\ store' = IF fault.at = 0 THEN after ELSE store
    /\ returned' = [err    |-> fault.err,
                    issued |-> IF fault.at = 0 THEN sts ELSE SubSeq(sts, 1, fault.at),
                    text   |-> <<>>,
                    fault  |-> fault]
    /\ lastCall' = Call(op, DesignRef, NoArg, "", NilRef, <<>>)
    /\ UNCHANGED <<objs, nodes, relationships, impliedUseEnabled, refs,
                   relationshipsOn, nRelCalls>>

\* Design.SaveToNeo4j, on a database that can fail (faulty) or that serves
\* every statement.
Save(faulty) ==
    \E rs \in RelStatements(objs, nodes, relationships) :
        LET sts == NodeStatements(objs, Registry(nodes)) \o rs
        IN  \E fault \in (IF faulty THEN Faults(Len(sts)) ELSE {NoFault}) :
                ExecuteWrite("Design.SaveToNeo4j", sts, fault, RunStatements(store, sts))

SaveToNeo4j == Save(TRUE)

SaveToNeo4jServed == Save(FALSE)

\* The stored nodes reachable from the nodes of from over relationships
\* followed from start to end: the pattern (design)-[r*0..]->(related).
RECURSIVE Related(_, _)
Related(g, from) ==
    LET more == from \cup {n \in g.nodes :
                    \E e \in g.edges, m \in from :
                        e.start = NodeKey(m) /\ e.end = NodeKey(n)}
    IN  IF more = from THEN from ELSE Related(g, more)

\* MATCH (design :Design{id: $designID})-[r*0..]->(related)
\* DETACH DELETE design, related
DetachDelete(g, designId) ==
    LET gone == {NodeKey(n) : n \in Related(g, Matches(g, {NodeTypeDesign}, designId))}
    IN  [nodes |-> {n \in g.nodes : NodeKey(n) \notin gone},
         edges |-> {e \in g.edges : e.start \notin gone /\ e.end \notin gone}]

\* Design.DeleteFromNeo4j, on a database that can fail (faulty) or that
\* serves every statement.
Delete(faulty) ==
    LET sts == <<[kind |-> "delete", designID |-> DesignID]>>
    IN  \E fault \in (IF faulty THEN Faults(Len(sts)) ELSE {NoFault}) :
            ExecuteWrite("Design.DeleteFromNeo4j", sts, fault, DetachDelete(store, DesignID))

DeleteFromNeo4j == Delete(TRUE)

DeleteFromNeo4jServed == Delete(FALSE)

-----------------------------------------------------------------------------
(* A caller that declares Systems, refers to System "a" by its full ID     *)
(* before or after declaring it, declares uses under two descriptions and  *)
(* saves to a database that serves every statement.                        *)

ForwardRefIds == {DesignID \o "." \o DesignID \o ".a"}

StoreDescriptions == {"uses", "calls"}

\* Elements (stubs included) the caller of a save scenario puts on the heap.
MaxElements == 2

\* Design.SystemWithId, by a caller that declares up to MaxElements elements
DeclareSystem == Len(objs) - 1 < MaxElements /\ SystemWithId

\* Design.NodeReference with the full ID of an element
NodeReferenceForward ==
    Len(objs) - 1 < MaxElements /\ \E id \in ForwardRefIds : Reference(id)

\* System.Uses, also on a NodeReference value of the caller's making
UsesDescribed ==
    \E s \in Of("System"), desc \in StoreDescriptions,
       n \in INodes \cup {[at |-> ForeignRef, dyn |-> "NodeReference"]} :
        DeclareUpTo(MaxUsesCalls, "System.Uses", s, n, SystemUses(objs, s, n, desc))

NextStore ==
    \/ DeclareSystem
    \/ NodeReferenceForward
    \/ UsesDescribed
    \/ SaveToNeo4jServed

SpecStore == Init /\ [][NextStore]_vars

-----------------------------------------------------------------------------
(* Hierarchical text serializer.  The text is kept as the lines of the     *)
(* string builder (String joins them with newlines); each line carries a   *)
(* note of the element or ledger entry it was written for.                 *)

\* Descriptions of the relationships of a serialized Design.
DslDescriptions == {"uses", "says \"hi\""}

\* strings.ReplaceAll(s, `"`, `\"`), on the strings in use.
sanitizeQuotes(s) == IF s = "says \"hi\"" THEN "says \\\"hi\\\"" ELSE s

escapeQuotes(s) == sanitizeQuotes(s)

RECURSIVE Repeat(_, _)
Repeat(str, n) == IF n = 0 THEN "" ELSE str \o Repeat(str, n - 1)

Note(what, node, rel) == [what |-> what, node |-> node, rel |-> rel]

Plain(what) == Note(what, NilRef, 0)

\* WriteLine and WriteLinef at an indentation level: the builder's indent is
\* fixed by the place of the call (Indent and Dedent come in pairs and Dedent
\* never meets level 0), so each line is written with the level it has there.
WriteLine(indent, str, note) ==
    [text |-> Repeat("    ", indent) \o str, note |-> note]

\* The Write calls of emitTags: a newline, the word tags and the quoted tags,
\* all added to the end of the line written last.
RECURSIVE WriteTags(_)
WriteTags(tags) ==
    IF tags = <<>> THEN ""
    ELSE " \"" \o sanitizeQuotes(Head(tags)) \o "\"" \o WriteTags(Tail(tags))

\* emitTags after the line `last`: that line with the tags at its end, and
\* the empty line of WriteLine("").
emitTags(last, indent, tags) ==
    IF Len(tags) = 0 THEN <<last>>
    ELSE <<[last EXCEPT !.text = @ \o "\ntags" \o WriteTags(tags)],
           WriteLine(indent, "", Plain("blank"))>>

\* parentChildren[id], the nil slice for a missing key.
Children(pc, id) == IF id \in DOMAIN pc THEN pc[id] ELSE <<>>

\* The line of an element: ID = keyword "name" "description"
ElementText(os, n, keyword) ==
    os[n].ID \o " = " \o keyword \o " \"" \o sanitizeQuotes(os[n].Name) \o "\" \""
             \o sanitizeQuotes(os[n].Description) \o "\""

RECURSIVE emitNodeDSL(_, _, _, _)
RECURSIVE emitNodes(_, _, _, _)

\* The loop "for _, c := range children { emitNodeDSL(sb, c, parentChildren) }"
emitNodes(os, children, pc, indent) ==
    IF children = <<>> THEN <<>>
    ELSE emitNodeDSL(os, Head(children), pc, indent)
         \o emitNodes(os, Tail(children), pc, indent)

\* An element with a block: header, tags, children, closing brace.
Block(os, n, keyword, children, pc, indent) ==
    emitTags(WriteLine(indent, ElementText(os, n, keyword) \o " {", Note(keyword, n, 0)),
             indent + 1, os[n].Tags)
    \o emitNodes(os, children, pc, indent + 1)
    \o <<WriteLine(indent, "}", Note("close", n, 0))>>

\* The lines emitNodeDSL writes for node n.
emitNodeDSL(os, n, pc, indent) ==
    IF os[n].NodeType = NodeTypePerson
    THEN IF Len(os[n].Tags) = 0
         THEN <<WriteLine(indent, ElementText(os, n, "person"), Note("person", n, 0))>>
         ELSE Block(os, n, "person", <<>>, pc, indent)
    ELSE IF os[n].NodeType = NodeTypeSystem
    THEN LET children == Children(pc, os[n].ID)
         IN  IF Len(children) = 0 /\ Len(os[n].Tags) = 0
             THEN <<WriteLine(indent, ElementText(os, n, "softwareSystem"),
                              Note("softwareSystem", n, 0))>>
             ELSE Block(os, n, "softwareSystem", children, pc, indent)
    ELSE IF os[n].NodeType = NodeTypeContainer
    THEN LET children == Children(pc, FullId(os, n))
         IN  IF Len(children) = 0 /\ Len(os[n].Tags) = 0
             THEN <<WriteLine(indent, ElementText(os, n, "container"),
                              Note("container", n, 0))>>
             ELSE Block(os, n, "container", children, pc, indent)
    ELSE IF os[n].NodeType = NodeTypeComponent
    THEN IF Len(os[n].Tags) = 0
         THEN <<WriteLine(indent, ElementText(os, n, "component"), Note("component", n, 0))>>
         ELSE Block(os, n, "component", <<>>, pc, indent)
    ELSE <<>>

\* Step 1: the maps nodeByID the range over the registry can leave (the last
\* node visited with a full ID stays under it).
RECURSIVE NodeByIDs(_, _, _)
NodeByIDs(os, reg, ids) ==
    IF ids = {} THEN {[id \in {} |-> NilRef]}
    ELSE LET id == CHOOSE x \in ids : TRUE
         IN  {MapSet(f, id, h) : f \in NodeByIDs(os, reg, ids \ {id}),
                                 h \in {k \in Registry(reg) : FullId(os, k) = id}}

\* Step 2: parentChildren after the first i ledger entries.
RECURSIVE parentChildren(_, _, _)
parentChildren(rels, nodeByID, i) ==
    IF i = 0 THEN [id \in {} |-> <<>>]
    ELSE LET pc  == parentChildren(rels, nodeByID, i - 1)
             rel == rels[i]
         IN  IF rel.Type = RelBelongsTo /\ rel.StartID \in DOMAIN nodeByID
             THEN MapSet(pc, rel.EndID, Append(Children(pc, rel.EndID), nodeByID[rel.StartID]))
             ELSE pc

\* Step 3: the nodes the search for NodeTypeDesign can stop at.
DesignNodes(os, reg) ==
    LET found == {h \in Registry(reg) : os[h].NodeType = NodeTypeDesign}
    IN  IF found = {} THEN {NilRef} ELSE found

\* Relationship lines that leave out the BELONGS_TO entries only.
RECURSIVE emitRelationshipsImplied(_, _, _)
emitRelationshipsImplied(rels, i, indent) ==
    IF i > Len(rels) THEN <<>>
    ELSE (IF rels[i].Type = RelBelongsTo THEN <<>>
          ELSE <<WriteLine(indent, rels[i].StartID \o " -> " \o rels[i].EndID \o " \""
                                     \o escapeQuotes(rels[i].Description) \o "\"",
                           Note("relationship", NilRef, i))>>)
         \o emitRelationshipsImplied(rels, i + 1, indent)

\* The relationship lines: every entry that is neither BELONGS_TO nor IMPLIED_USE.
RECURSIVE emitRelationships(_, _, _)
emitRelationships(rels, i, indent) ==
    IF i > Len(rels) THEN <<>>
    ELSE (IF rels[i].Type = RelBelongsTo \/ rels[i].Type = RelImpliedUse THEN <<>>
          ELSE <<WriteLine(indent, rels[i].StartID \o " -> " \o rels[i].EndID \o " \""
                                     \o escapeQuotes(rels[i].Description) \o "\"",
                           Note("relationship", NilRef, i))>>)
         \o emitRelationships(rels, i + 1, indent)

\* Views written for every child of the design node, whatever its kind.
RECURSIVE emitViewsAnyKind(_, _, _)
emitViewsAnyKind(os, children, indent) ==
    IF children = <<>> THEN <<>>
    ELSE LET sys == Head(children)
         IN  <<WriteLine(indent, "systemContext " \o os[sys].ID
                                    \o " \"system_context_"
                                    \o sanitizeQuotes(os[sys].Name) \o "\" {",
                          Note("systemContext", sys, 0)),
                WriteLine(indent + 1, "include *", Plain("include")),
                WriteLine(indent + 1, "autolayout lr", Plain("autolayout")),
                WriteLine(indent, "}", Plain("close")),
                WriteLine(indent, "", Plain("blank")),
                WriteLine(indent, "container " \o os[sys].ID \o " \"container_"
                                    \o sanitizeQuotes(os[sys].Name) \o "\" {",
                          Note("containerView", sys, 0)),
                WriteLine(indent + 1, "include *", Plain("include")),
                WriteLine(indent + 1, "autolayout lr", Plain("autolayout")),
                WriteLine(indent, "}", Plain("close")),
                WriteLine(indent, "", Plain("blank"))>>
             \o emitViewsAnyKind(os, Tail(children), indent)

\* The two views of every System among the children of the design node.
RECURSIVE emitViews(_, _, _)
emitViews(os, children, indent) ==
    IF children = <<>> THEN <<>>
    ELSE LET sys == Head(children)
         IN  (IF os[sys].NodeType = NodeTypeSystem
              THEN <<WriteLine(indent, "systemContext " \o os[sys].ID
                                         \o " \"system_context_"
                                         \o sanitizeQuotes(os[sys].Name) \o "\" {",
                               Note("systemContext", sys, 0)),
                     WriteLine(indent + 1, "include *", Plain("include")),
                     WriteLine(indent + 1, "autolayout lr", Plain("autolayout")),
                     WriteLine(indent, "}", Plain("close")),
                     WriteLine(indent, "", Plain("blank")),
                     WriteLine(indent, "container " \o os[sys].ID \o " \"container_"
                                         \o sanitizeQuotes(os[sys].Name) \o "\" {",
                               Note("containerView", sys, 0)),
                     WriteLine(indent + 1, "include *", Plain("include")),
                     WriteLine(indent + 1, "autolayout lr", Plain("autolayout")),
                     WriteLine(indent, "}", Plain("close")),
                     WriteLine(indent, "", Plain("blank"))>>
              ELSE <<>>)
             \o emitViews(os, Tail(children), indent)

\* Step 5 of ToStructurizrDSL: the lines for one nodeByID and one design node.
EmitDSL(os, rels, pc, designNode) ==
    <<WriteLine(0, "workspace \"" \o DesignName \o "\" \"" \o DesignDescription \o "\" {",
                Plain("workspace")),
      WriteLine(1, "!identifiers hierarchical", Plain("directive")),
      WriteLine(1, "", Plain("blank")),
      WriteLine(1, "model {", Plain("model"))>>
    \o emitNodes(os, Children(pc, FullId(os, designNode)), pc, 2)
    \o <<WriteLine(2, "", Plain("blank"))>>
    \o emitRelationships(rels, 1, 2)
    \o <<WriteLine(1, "}", Plain("close")),
          WriteLine(1, "", Plain("blank")),
          WriteLine(1, "views {", Plain("views"))>>
    \o emitViews(os, Children(pc, os[designNode].ID), 2)
    \o <<WriteLine(1, "}", Plain("close")),
          WriteLine(0, "}", Plain("close"))>>

\* ToStructurizrDSL that keeps its lookup nodeByID as the registry of the Design.
ToStructurizrDSLKeepsLookup ==
    \E nodeByID \in NodeByIDs(objs, nodes, {FullId(objs, h) : h \in Registry(nodes)}),
       designNode \in DesignNodes(objs, nodes) :
        /\ returned' =
              [NoValue EXCEPT !.text =
                  IF designNode = NilRef
                  THEN <<[text |-> "// No design node found", note |-> Plain("comment")]>>
                  ELSE EmitDSL(objs, relationships,
                               parentChildren(relationships, nodeByID, Len(relationships)),
                               designNode)]
        /\ lastCall' = Call("Design.ToStructurizrDSL", DesignRef, NoArg, "", designNode, <<>>)
        /\ nodes' = nodeByID
        /\ UNCHANGED <<objs, relationships, impliedUseEnabled, refs,
                       relationshipsOn, nRelCalls, store, nStoreCalls>>

\* ToStructurizrDSL that writes an empty workspace when it finds no design node.
ToStructurizrDSLEmptyWorkspace ==
    \E nodeByID \in NodeByIDs(objs, nodes, {FullId(objs, h) : h \in Registry(nodes)}),
       designNode \in DesignNodes(objs, nodes) :
        /\ returned' =
              [NoValue EXCEPT !.text =
                  IF designNode = NilRef
                  THEN <<WriteLine(0, "workspace \"" \o DesignName \o "\" \""
                                        \o DesignDescription \o "\" {", Plain("workspace")),
                         WriteLine(0, "}", Plain("close"))>>
                  ELSE EmitDSL(objs, relationships,
                               parentChildren(relationships, nodeByID, Len(relationships)),
                               designNode)]
        /\ lastCall' = Call("Design.ToStructurizrDSL", DesignRef, NoArg, "", designNode, <<>>)
        /\ UNCHANGED <<objs, nodes, relationships, impliedUseEnabled, refs,
                       relationshipsOn, nRelCalls, store, nStoreCalls>>

\* The text ToStructurizrDSL returns when the ranges over the registry leave
\* nodeByID and stop at designNode.
TextOf(os, rels, nodeByID, designNode) ==
    IF designNode = NilRef
    THEN <<[text |-> "// No design node found", note |-> Plain("comment")]>>
    ELSE EmitDSL(os, rels, parentChildren(rels, nodeByID, Len(rels)), designNode)

\* Design.ToStructurizrDSL
ToStructurizrDSL ==
    \E nodeByID \in NodeByIDs(objs, nodes, {FullId(objs, h) : h \in Registry(nodes)}),
       designNode \in DesignNodes(objs, nodes) :
        /\ returned' =
              [NoValue EXCEPT !.text = TextOf(objs, relationships, nodeByID, designNode)]
        /\ lastCall' = Call("Design.ToStructurizrDSL", DesignRef, NoArg, "", designNode, <<>>)
        /\ UNCHANGED <<objs, nodes, relationships, impliedUseEnabled, refs,
                       relationshipsOn, nRelCalls, store, nStoreCalls>>

-----------------------------------------------------------------------------
(* A caller that declares elements of every kind, tags them and serializes *)
(* the Design.                                                             *)

NextDsl ==
    \/ Person
    \/ SystemWithId
    \/ Container
    \/ ComponentWithId
    \/ ContainerCustom
    \/ Tag
    \/ ToStructurizrDSL

SpecDsl == Init /\ [][NextDsl]_vars

-----------------------------------------------------------------------------
(* A caller that declares two Systems with a Container each and Components *)
(* in them, every element once, and has a Component use another element.   *)

MaxCrossNodes == 5

\* The element made last has its parent and ID in common with no other node:
\* its local ID is new among the children of its parent.
DeclaredOnce ==
    \A h \in 1..Len(objs) :
        h # lastCall.new =>
            ~(/\ objs[h].ParentNode = objs[lastCall.new].ParentNode
              /\ objs[h].ID = objs[lastCall.new].ID)

SystemCross == SystemWithIdIn(MaxCrossNodes, SystemIds) /\ DeclaredOnce'

ContainerCross == ContainerIn(MaxCrossNodes, ContainerNames) /\ DeclaredOnce'

ComponentCross == ComponentWithIdUpTo(MaxCrossNodes) /\ DeclaredOnce'

NextCross ==
    \/ SystemCross
    \/ ContainerCross
    \/ ComponentCross
    \/ EnableImpliedUse
    \/ CallComponentUses

SpecCross == Init /\ [][NextCross]_vars

-----------------------------------------------------------------------------
(* A caller that gives its Custom elements labels of its own choice.       *)

ArbitraryLabels == {"Queue", "Design"}

ContainerCustomArbitrary == ContainerCustomIn(ArbitraryLabels)

NextLabels ==
    \/ SystemWithId
    \/ Container
    \/ ContainerCustomArbitrary
    \/ CustomWithId
    \/ NodeReference

SpecLabels == Init /\ [][NextLabels]_vars

-----------------------------------------------------------------------------
(* A caller that asks NodeReference for identifiers that are registry keys *)
(* of declared elements and for identifiers that are not.                  *)

KeyRefIds == {DesignID, DesignID \o ".a", DesignID \o "." \o DesignID \o ".a", "other"}

NodeReferenceAny == \E id \in KeyRefIds : Reference(id)

NextRefs ==
    \/ Person
    \/ SystemWithId
    \/ NodeReferenceAny
    \/ CallSystemUses

SpecRefs == Init /\ [][NextRefs]_vars

-----------------------------------------------------------------------------
(* A caller whose identifiers may hold the separator of the identifier     *)
(* scheme, and who gives every child of a parent its own local ID.         *)

SeparatedSystemIds == {"a", "a.b"}
SeparatedContainerNames == {"c", "b.c"}

PersonOnce == Person /\ DeclaredOnce'

SystemOnce == SystemWithIdIn(MaxNodes, SeparatedSystemIds) /\ DeclaredOnce'

ContainerOnce == ContainerIn(MaxNodes, SeparatedContainerNames) /\ DeclaredOnce'

ComponentOnce == ComponentWithId /\ DeclaredOnce'

NextOnce ==
    \/ PersonOnce
    \/ SystemOnce
    \/ ContainerOnce
    \/ ComponentOnce

SpecOnce == Init /\ [][NextOnce]_vars

-----------------------------------------------------------------------------
(* A caller that gets its Design from NewDesign or writes the composite    *)
(* literal &Design{ID: ..., Name: ..., Description: ...}, whose registry   *)
(* is the nil map: ranging over it visits nothing, assigning to it panics. *)

\* The nil map[string]*Node.
NilMap == [k \in {} |-> NilRef]

\* The state after &Design{ID: DesignID, Name: DesignName, Description: ...}
DesignLiteral ==
    /\ objs = <<>>
    /\ nodes = NilMap
    /\ relationships = <<>>
    /\ impliedUseEnabled = FALSE
    /\ refs = {}
    /\ relationshipsOn = <<>>
    /\ nRelCalls = 0
    /\ lastCall = [op |-> "Design{}", self |-> DesignRef, arg |-> NoArg, id |-> DesignName,
                   new |-> NilRef, enabled |-> FALSE, adds |-> <<>>]
    /\ store = EmptyStore
    /\ nStoreCalls = 0
    /\ returned = NoValue

InitAnyDesign == Init \/ DesignLiteral

\* The factories, which end the program with a panic on the nil registry.
NextAnyDesign ==
    \/ nodes # NilMap /\ Person
    \/ nodes # NilMap /\ SystemWithId
    \/ nodes # NilMap /\ Container
    \/ nodes # NilMap /\ Tag
    \/ ToStructurizrDSL

SpecAnyDesign == InitAnyDesign /\ [][NextAnyDesign]_vars

-----------------------------------------------------------------------------
(* A caller that declares a System and a Container, has the Container use  *)
(* other elements with inference on or off, and serializes the Design.     *)

\* System.Container, by a caller that declares up to MaxElements elements
DeclareContainer == Len(objs) - 1 < MaxElements /\ Container

\* Container.Uses with the descriptions of a serialized Design
UsesQuoted ==
    \E c \in Of("Container"), n \in INodes, desc \in DslDescriptions :
        DeclareUpTo(MaxUsesCalls, "Container.Uses", c, n, ContainerUses(objs, c, n, desc))

NextDslLedger ==
    \/ DeclareSystem
    \/ DeclareContainer
    \/ EnableImpliedUse
    \/ UsesQuoted
    \/ ToStructurizrDSL

SpecDslLedger == Init /\ [][NextDslLedger]_vars

-----------------------------------------------------------------------------
(* The same caller without NodeReference, on a database whose statements   *)
(* can return an error.                                                    *)

NextFaulty ==
    \/ DeclareSystem
    \/ UsesDescribed
    \/ SaveToNeo4j
    \/ DeleteFromNeo4j

SpecFaulty == Init /\ [][NextFaulty]_vars

-----------------------------------------------------------------------------
(* A caller that declares Persons, Systems, Containers and Components,     *)
(* saves and deletes the Design by its ID.                                 *)

NextDelete ==
    \/ Person
    \/ SystemWithId
    \/ Container
    \/ ComponentWithId
    \/ SaveToNeo4jServed
    \/ DeleteFromNeo4jServed

SpecDelete == Init /\ [][NextDelete]_vars

-----------------------------------------------------------------------------
(* A caller that declares Persons, changes their attributes and saves.     *)

\* Design.Person, by a caller that declares up to MaxElements elements
DeclarePerson == Len(objs) - 1 < MaxElements /\ Person

NextUpsert ==
    \/ DeclarePerson
    \/ Tag
    \/ External
    \/ Internal
    \/ SaveToNeo4jServed

SpecUpsert == Init /\ [][NextUpsert]_vars

-----------------------------------------------------------------------------
(* Properties *)

Factories == {"Design.Person", "Design.SystemWithId", "System.Container",
              "Container.ComponentWithId", "Container.Custom", "Component.Custom",
              "CustomComponent.CustomWithId"}

\* The ledger rels holds an entry start -> end of type t.
Holds(rels, start, end, t) ==
    \E i \in 1..Len(rels) :
        rels[i].StartID = start /\ rels[i].EndID = end /\ rels[i].Type = t

\* The number of entries start -> end of type t in rels.
Count(rels, start, end, t) ==
    Cardinality({i \in 1..Len(rels) :
        rels[i].StartID = start /\ rels[i].EndID = end /\ rels[i].Type = t})

ImpliedCount(rels) == Cardinality({i \in 1..Len(rels) : rels[i].Type = RelImpliedUse})

IsExplicit(r) == r.Type # RelImpliedUse

Explicit(rels) == SelectSeq(rels, IsExplicit)

IsPrefix(s, t) == Len(s) <= Len(t) /\ SubSeq(t, 1, Len(s)) = s

\* The System that owns the Container or Component at address h.
OwningSystem(h) ==
    IF objs[h].GoType = "Container" THEN objs[h].system
    ELSE objs[objs[h].container].system

\* C1: a node created by a factory with local ID L under parent P has the full
\* ID FullId(P) . L, and a node without a parent has its own ID as full ID.
C1_FullIdIsParentFullIdDotLocalId ==
    /\ lastCall.op \in Factories =>
          FullId(objs, lastCall.new)
            = FullId(objs, objs[lastCall.new].ParentNode) \o "." \o lastCall.id
    /\ \A i \in 1..Len(objs) :
          objs[i].ParentNode = NilRef => FullId(objs, i) = objs[i].ID

\* C2 as claimed: every registry node N with a parent P has exactly one
\* BELONGS_TO entry FullId(N) -> FullId(P) in the ledger.
C2_ExactlyOneBelongsTo ==
    \A k \in DOMAIN nodes :
        objs[nodes[k]].ParentNode # NilRef =>
            Count(relationships, FullId(objs, nodes[k]),
                  FullId(objs, objs[nodes[k]].ParentNode), RelBelongsTo) = 1

\* C2 as amended: every registry node N with a parent P has at least one
\* BELONGS_TO entry FullId(N) -> FullId(P), and exactly one for each node that
\* was created with that full ID under a parent with that full ID.
C2_OneBelongsToPerCreation ==
    \A k \in DOMAIN nodes :
        LET n == nodes[k]
            c == Count(relationships, FullId(objs, n),
                       FullId(objs, objs[n].ParentNode), RelBelongsTo)
        IN  objs[n].ParentNode # NilRef =>
               /\ c >= 1
               /\ c = Cardinality({j \in 1..Len(objs) :
                          /\ objs[j].ParentNode # NilRef
                          /\ FullId(objs, j) = FullId(objs, n)
                          /\ FullId(objs, objs[j].ParentNode)
                               = FullId(objs, objs[n].ParentNode)})

\* A registry node whose (parent, local ID) was created twice: two entries.
C2_Witness ==
    \E k \in DOMAIN nodes :
        /\ objs[nodes[k]].ParentNode # NilRef
        /\ objs[nodes[k]].GoType = "Container"
        /\ Count(relationships, FullId(objs, nodes[k]),
                 FullId(objs, objs[nodes[k]].ParentNode), RelBelongsTo) = 2

\* C3: on a Design on which EnableImpliedUse was never called (SpecDefault),
\* Container.UsedBy by a Person records IMPLIED_USE(Person -> owning System).
C3_ImpliedUseEnabledByDefault ==
    (lastCall.op = "Container.UsedBy" /\ lastCall.arg.dyn = "Person") =>
        Holds(relationships, FullId(objs, lastCall.arg.at),
              FullId(objs, objs[lastCall.self].system), RelImpliedUse)

\* C4: a call made while inference is disabled adds no IMPLIED_USE entry, so a
\* ledger built while inference is disabled holds none.
C4_DisabledAddsNoImpliedUse ==
    [][~impliedUseEnabled =>
          ImpliedCount(relationships') = ImpliedCount(relationships)]_vars

\* A call that asks for an IMPLIED_USE edge was made while disabled.
C4_Witness ==
    /\ ~lastCall.enabled
    /\ lastCall.op \in {"Container.Uses", "Container.UsedBy", "System.ImpliedUse",
                        "System.ImpliedUsedBy"}
    /\ \E i \in 1..Len(lastCall.adds) : lastCall.adds[i].Type = RelImpliedUse
    /\ ImpliedCount(relationships) = 0

\* C5: with inference enabled, a Uses call by a Container or Component on a
\* Container or Component appends no IMPLIED_USE entry whose StartID equals its
\* EndID (a System using itself).
C5_NoSelfImpliedUse ==
    (/\ lastCall.enabled
     /\ lastCall.op \in {"Container.Uses", "Component.Uses"}
     /\ lastCall.arg.dyn \in {"Container", "Component"}) =>
        \A i \in 1..Len(lastCall.adds) :
            LET a == lastCall.adds[i]
            IN  (a.Type = RelImpliedUse /\ a.post # a.pre) => a.StartID # a.EndID

\* Container.Uses was called, with inference enabled, on a Container of a
\* System with another ID.
C6_Case ==
    /\ lastCall.op = "Container.Uses"
    /\ lastCall.enabled
    /\ lastCall.arg.dyn = "Container"
    /\ objs[objs[lastCall.arg.at].system].ID # objs[objs[lastCall.self].system].ID

\* C6: after Container C1 of System SA called Uses on Container C2 of another
\* System SB with inference enabled, the ledger holds USES(C1 -> C2) and
\* IMPLIED_USE(SA -> SB).
C6_CrossSystemUses ==
    C6_Case =>
        /\ Holds(relationships, FullId(objs, lastCall.self),
                 FullId(objs, lastCall.arg.at), RelUses)
        /\ Holds(relationships, FullId(objs, objs[lastCall.self].system),
                 FullId(objs, objs[lastCall.arg.at].system), RelImpliedUse)

C6_Witness == C6_Case /\ Len(relationships) >= 7

\* UsedBy was called on a Container or Component with inference enabled.
C7_Case ==
    /\ lastCall.op \in {"Container.UsedBy", "Component.UsedBy"}
    /\ lastCall.enabled

\* The first addRelationship call of UsedBy appended USES(actor -> target).
C7_UsesAppended ==
    LET first == lastCall.adds[1]
    IN  /\ first.post = Append(first.pre,
                               Relationship(FullId(objs, lastCall.arg.at),
                                            FullId(objs, lastCall.self),
                                            RelUses, first.Description))
        /\ IsPrefix(first.post, relationships)

\* The last addRelationship call of UsedBy asked for IMPLIED_USE(actor -> System).
C7_ImpliedAsked ==
    LET last == lastCall.adds[Len(lastCall.adds)]
    IN  /\ Len(lastCall.adds) >= 2
        /\ last.StartID = FullId(objs, lastCall.arg.at)
        /\ last.EndID = FullId(objs, OwningSystem(lastCall.self))
        /\ last.Type = RelImpliedUse
        /\ IsPrefix(last.post, relationships)

\* ... and appended it.
C7_ImpliedAppended ==
    LET last == lastCall.adds[Len(lastCall.adds)]
    IN  last.post = Append(last.pre, Relationship(last.StartID, last.EndID,
                                                  RelImpliedUse, last.Description))

\* System S1 with Container Api and Person User are all there is, and the one
\* relationship call made is Api.UsedBy(User) with inference enabled.
C7_ScenarioCase ==
    /\ Len(objs) = 4
    /\ nRelCalls = 1
    /\ lastCall.op = "Container.UsedBy"
    /\ lastCall.arg.dyn = "Person"
    /\ lastCall.enabled

C7_Scenario ==
    LET api  == FullId(objs, lastCall.self)
        s1   == FullId(objs, objs[lastCall.self].system)
        user == FullId(objs, lastCall.arg.at)
    IN  /\ Count(relationships, api, s1, RelBelongsTo) = 1
        /\ Count(relationships, user, api, RelUses) = 1
        /\ Count(relationships, user, s1, RelImpliedUse) = 1
        /\ ~Holds(relationships, api, s1, RelImpliedUse)
        /\ ~Holds(relationships, s1, api, RelImpliedUse)

\* C7 as claimed: UsedBy(actor) on a Container or Component appends
\* USES(actor -> target) and then IMPLIED_USE(actor -> owning System); in the
\* S1/Api/User scenario the ledger holds the three entries once each and no
\* IMPLIED_USE between Api and S1.
C7_UsedByAppendsImpliedUse ==
    /\ C7_Case => (C7_UsesAppended /\ C7_ImpliedAsked /\ C7_ImpliedAppended)
    /\ C7_ScenarioCase => C7_Scenario

\* C7 as amended: the IMPLIED_USE(actor -> owning System) edge is appended
\* unless the ledger already holds BELONGS_TO(System -> actor), which is the
\* case when the actor is the Design that owns the System.
C7_UsedByAppendsImpliedUseUnlessOwned ==
    /\ C7_Case =>
          /\ C7_UsesAppended
          /\ C7_ImpliedAsked
          /\ LET last == lastCall.adds[Len(lastCall.adds)]
             IN  IF Holds(last.pre, last.EndID, last.StartID, RelBelongsTo)
                 THEN last.post = last.pre /\ last.StartID = DesignID
                 ELSE C7_ImpliedAppended
    /\ C7_ScenarioCase => C7_Scenario

C7_Witness ==
    /\ C7_ScenarioCase
    /\ C7_ImpliedAppended

\* C8 as claimed: an IMPLIED_USE edge A -> B asked for while the ledger holds
\* BELONGS_TO B -> A or BELONGS_TO A -> B leaves the ledger unchanged.
C8_SuppressedEitherDirection ==
    \A i \in 1..Len(lastCall.adds) :
        LET a == lastCall.adds[i]
        IN  (/\ a.Type = RelImpliedUse
             /\ \/ Holds(a.pre, a.EndID, a.StartID, RelBelongsTo)
                \/ Holds(a.pre, a.StartID, a.EndID, RelBelongsTo)) =>
                a.post = a.pre

\* C8 as amended: an IMPLIED_USE edge A -> B asked for while the ledger holds
\* BELONGS_TO B -> A leaves the ledger unchanged.
C8_SuppressedWhenEndBelongsToStart ==
    \A i \in 1..Len(lastCall.adds) :
        LET a == lastCall.adds[i]
        IN  (a.Type = RelImpliedUse
             /\ Holds(a.pre, a.EndID, a.StartID, RelBelongsTo)) =>
                a.post = a.pre

\* With inference enabled, an edge System -> its own Container was asked for.
C8_Witness ==
    /\ lastCall.enabled
    /\ \E i \in 1..Len(lastCall.adds) :
          LET a == lastCall.adds[i]
          IN  /\ a.Type = RelImpliedUse
              /\ Holds(a.pre, a.EndID, a.StartID, RelBelongsTo)
              /\ a.StartID # DesignID

\* C9: no IMPLIED_USE entry A -> B coexists with a BELONGS_TO entry B -> A.
C9_NoImpliedUseOverBelongsTo ==
    \A i \in 1..Len(relationships), j \in 1..Len(relationships) :
        ~(/\ relationships[i].Type = RelImpliedUse
          /\ relationships[j].Type = RelBelongsTo
          /\ relationships[j].StartID = relationships[i].EndID
          /\ relationships[j].EndID = relationships[i].StartID)

\* C10: the USES, BELONGS_TO and INTERACTS_WITH entries of the ledger, in
\* order, are those of the same call sequence made with inference enabled,
\* whatever the flag was at each call.
C10_ExplicitEntriesUnaffected ==
    Explicit(relationships) = Explicit(relationshipsOn)

\* A call made while disabled, whose IMPLIED_USE edge only the enabled run has.
C10_Witness ==
    /\ ~lastCall.enabled
    /\ lastCall.op = "Container.Uses"
    /\ ImpliedCount(relationships) = 0
    /\ ImpliedCount(relationshipsOn) > 0
    /\ Len(Explicit(relationships)) >= 3

\* The number of ledger entries equal to r.
CountEqual(rels, r) == Cardinality({i \in 1..Len(rels) : rels[i] = r})

\* The USES entry the Uses call just made asked for.
UsesEntry(call) ==
    Relationship(call.adds[1].StartID, call.adds[1].EndID, RelUses,
                 call.adds[1].Description)

UsesOps == {"Person.Uses", "Container.Uses"}

\* C11: every builder operation keeps the ledger it found as a prefix of the
\* ledger it leaves, and every Uses call adds one more entry equal to its USES
\* entry, whether or not the ledger already holds an equal one (so two
\* identical Uses calls leave two equal entries).
C11_AppendOnlyNotDeduplicated ==
    [][/\ IsPrefix(relationships, relationships')
       /\ (nRelCalls' = nRelCalls + 1 /\ lastCall'.op \in UsesOps) =>
              CountEqual(relationships', UsesEntry(lastCall'))
                = CountEqual(relationships, UsesEntry(lastCall')) + 1]_vars

\* The same Uses call was made twice: two equal USES entries.
C11_Witness ==
    /\ nRelCalls = 2
    /\ lastCall.op \in UsesOps
    /\ CountEqual(relationships, UsesEntry(lastCall)) = 2

\* No two stored nodes have the same id property.
NoDuplicateNode(g) ==
    \A n \in g.nodes, m \in g.nodes : n.props.id = m.props.id => n = m

\* The stored relationships with the key of the ledger entry rel.
EdgesWithKey(g, rel) ==
    {e \in g.edges : /\ e.start.id = rel.StartID
                     /\ e.end.id = rel.EndID
                     /\ e.type = rel.Type
                     /\ e.description = rel.Description}

\* No two stored relationships have the same (start ID, end ID, type, description).
NoDuplicateEdge(g) ==
    \A e \in g.edges, f \in g.edges :
        (/\ e.start.id = f.start.id
         /\ e.end.id = f.end.id
         /\ e.type = f.type
         /\ e.description = f.description) => e = f

\* The last call was a SaveToNeo4j that returned no error.
Saved(call, ret) == call.op = "Design.SaveToNeo4j" /\ ret.err = ""

\* C12: a successful save that directly follows a successful save of the same
\* Design leaves the store as the first one left it, without two nodes of one
\* id and without two relationships of one (start ID, end ID, type,
\* description).
C12_SaveIsIdempotent ==
    [][(/\ Saved(lastCall, returned)
        /\ Saved(lastCall', returned')
        /\ nStoreCalls' = nStoreCalls + 1) =>
            /\ store' = store
            /\ NoDuplicateNode(store')
            /\ NoDuplicateEdge(store')]_vars

\* C14: the store holds at most one node for each value of the id property
\* (the store changes by successful saves only).
C14_OneNodePerId == NoDuplicateNode(store)

\* Ledger entries that differ in their description only.
DifferInDescription(r, q) ==
    /\ r.StartID = q.StartID
    /\ r.EndID = q.EndID
    /\ r.Type = q.Type
    /\ r.Description # q.Description

\* The endpoint ID is the full ID of at most one kind of registry node.
OneLabel(id) == Cardinality(EndpointLabels(objs, nodes, id)) = 1

IssuedRel(ret) == {i \in 1..Len(ret.issued) : ret.issued[i].kind = "rel"}

\* The registry nodes whose full ID is id.
WithFullId(id) == {h \in Registry(nodes) : FullId(objs, h) = id}

\* C16 as claimed: every endpoint of a relationship statement of a save has
\* the kind of the registry node whose full ID is the endpoint ID, and the
\* label Unknown exactly when no registry node has that full ID; the save
\* returns no error.
C16_UnknownIffUnresolved ==
    lastCall.op = "Design.SaveToNeo4j" =>
        /\ returned.fault.at = 0 => returned.err = ""
        /\ \A i \in IssuedRel(returned) :
              LET st == returned.issued[i]
              IN  /\ \A h \in WithFullId(st.startID) : st.startNodeLabel = objs[h].NodeType
                  /\ \A h \in WithFullId(st.endID) : st.endNodeLabel = objs[h].NodeType
                  /\ st.startNodeLabel = "Unknown" <=> WithFullId(st.startID) = {}
                  /\ st.endNodeLabel = "Unknown" <=> WithFullId(st.endID) = {}

\* C16 as amended: every endpoint of a relationship statement of a save has
\* the kind of a registry node whose full ID is the endpoint ID, which is
\* Unknown for a stub made by NodeReference, and the label Unknown when no
\* registry node has that full ID; the save returns no error and the store
\* then holds a node of that label and ID.
C16_LabelOfSomeRegistryNode ==
    lastCall.op = "Design.SaveToNeo4j" =>
        /\ returned.fault.at = 0 => returned.err = ""
        /\ \A i \in IssuedRel(returned) :
              LET st == returned.issued[i]
              IN  /\ IF WithFullId(st.startID) = {}
                     THEN st.startNodeLabel = "Unknown"
                     ELSE \E h \in WithFullId(st.startID) :
                              st.startNodeLabel = objs[h].NodeType
                  /\ IF WithFullId(st.endID) = {}
                     THEN st.endNodeLabel = "Unknown"
                     ELSE \E h \in WithFullId(st.endID) :
                              st.endNodeLabel = objs[h].NodeType
                  /\ returned.err = "" =>
                        /\ Matches(store, {st.startNodeLabel}, st.startID) # {}
                        /\ Matches(store, {st.endNodeLabel}, st.endID) # {}

\* A save of a ledger with an endpoint no registry node has (the caller's
\* own NodeReference value) and an endpoint that is a declared System.
C16_Witness ==
    /\ Saved(lastCall, returned)
    /\ \E i \in IssuedRel(returned) :
          LET st == returned.issued[i]
          IN  /\ WithFullId(st.endID) = {}
              /\ st.endNodeLabel = "Unknown"
              /\ st.startNodeLabel = NodeTypeSystem
              /\ \E n \in store.nodes :
                    n.labels = {"Unknown"} /\ n.props = [k \in {"id"} |-> ForeignID]

\* The statements of one kind among the first n issued.
IssuedOfKind(ret, kind, n) == {i \in 1..n : ret.issued[i].kind = kind}

\* C17: in one SaveToNeo4j call every relationship statement is issued after
\* one node statement per registry entry has been issued; the statement that
\* returns an error is the last one issued and the call returns its error; a
\* call without a failing statement issues one statement per registry entry
\* and per ledger entry and returns no error.
C17_NodesFirstAndFailFast ==
    lastCall.op = "Design.SaveToNeo4j" =>
        LET n == Cardinality(DOMAIN nodes)
            k == Len(returned.issued)
        IN  /\ \A i \in IssuedOfKind(returned, "rel", k) :
                  /\ i > n
                  /\ Cardinality(IssuedOfKind(returned, "node", i)) = n
            /\ \A i \in 1..k : i <= n => returned.issued[i].kind = "node"
            /\ IF returned.fault.at = 0
               THEN returned.err = "" /\ k = n + Len(relationships)
               ELSE /\ k = returned.fault.at
                    /\ returned.err = returned.fault.err
                    /\ returned.err \in StoreErrors

\* A save whose second relationship statement failed, with one more to go.
C17_Witness ==
    /\ lastCall.op = "Design.SaveToNeo4j"
    /\ returned.fault.at = Cardinality(DOMAIN nodes) + 2
    /\ Len(relationships) >= 3
    /\ returned.err = "deadlock"
    /\ store = EmptyStore

\* The full IDs of the Design's registry nodes.
DesignIds == {FullId(objs, h) : h \in Registry(nodes)}

\* C18: after a successful DeleteFromNeo4j the store holds no node whose id
\* is the full ID of a node of the Design and no relationship from or to
\* such a node.
C18_DeleteRemovesTheDesign ==
    (lastCall.op = "Design.DeleteFromNeo4j" /\ returned.err = "") =>
        /\ \A n \in store.nodes : n.props.id \notin DesignIds
        /\ \A e \in store.edges : e.start.id \notin DesignIds /\ e.end.id \notin DesignIds

\* The store that saving the Design as it is into an empty store makes.
SavedAfresh ==
    RunStatements(EmptyStore,
                  NodeStatements(objs, Registry(nodes))
                  \o (CHOOSE rs \in RelStatements(objs, nodes, relationships) : TRUE))

\* C15: after a successful save the stored node of every registry node has
\* the properties (name, description, nodeType, tags, tag_ properties,
\* external) that saving the Design as it is now into an empty store gives it.
C15_LastWriterWins ==
    Saved(lastCall, returned) =>
        \A h \in Registry(nodes) :
            LET stored == Matches(store, {objs[h].NodeType}, FullId(objs, h))
                afresh == Matches(SavedAfresh, {objs[h].NodeType}, FullId(objs, h))
            IN  stored # {} /\ stored = afresh

\* The last call was ToStructurizrDSL.
Serialized == lastCall.op = "Design.ToStructurizrDSL"

ElementKeywords == {"person", "softwareSystem", "container", "component"}

\* The lines of the text that open the block of element h.
ElementLines(text, h) ==
    {i \in 1..Len(text) : text[i].note.node = h /\ text[i].note.what \in ElementKeywords}

\* The line that closes the block opened at line i (line i itself for an
\* element written without braces).
CloseLine(text, i) ==
    IF \E j \in i..Len(text) : text[j].note = Note("close", text[i].note.node, 0)
    THEN CHOOSE j \in i..Len(text) :
            /\ text[j].note = Note("close", text[i].note.node, 0)
            /\ \A k \in i..(j - 1) : text[k].note # Note("close", text[i].note.node, 0)
    ELSE i

\* The registry node h is linked to the Design root by BELONGS_TO entries.
RECURSIVE Connected(_)
Connected(h) ==
    /\ h # NilRef
    /\ \/ h = DesignRef
       \/ /\ objs[h].ParentNode # NilRef
          /\ Holds(relationships, FullId(objs, h), FullId(objs, objs[h].ParentNode),
                   RelBelongsTo)
          /\ Connected(objs[h].ParentNode)

\* The line that opens the model section and the line that closes it.
ModelLine(text) == CHOOSE i \in 1..Len(text) : text[i].note.what = "model"

ViewsLine(text) == CHOOSE i \in 1..Len(text) : text[i].note.what = "views"

\* C19: the text of ToStructurizrDSL has, for every registry node linked to
\* the root by BELONGS_TO entries, exactly one element line, inside the block
\* of its parent (inside the model section, for a child of the root).
C19_OneBlockPerNode ==
    Serialized =>
        LET text == returned.text
        IN  \A h \in Registry(nodes) :
                (objs[h].ParentNode # NilRef /\ Connected(h)) =>
                    /\ Cardinality(ElementLines(text, h)) = 1
                    /\ \A i \in ElementLines(text, h) :
                          IF objs[h].ParentNode = DesignRef
                          THEN ModelLine(text) < i /\ i < ViewsLine(text)
                          ELSE \E p \in ElementLines(text, objs[h].ParentNode) :
                                  p < i /\ i < CloseLine(text, p)

IsRelationshipLine(line) == line.note.what = "relationship"

IsDeclared(r) == r.Type # RelBelongsTo /\ r.Type # RelImpliedUse

\* C20: the relationship lines of the text are, in ledger order, one line
\* StartID -> EndID "description" for every ledger entry that is neither
\* BELONGS_TO nor IMPLIED_USE, and they stand in the model section; without
\* such an entry there is no relationship line.
C20_RelationshipLines ==
    Serialized =>
        LET text     == returned.text
            lines    == SelectSeq(text, IsRelationshipLine)
            declared == SelectSeq(relationships, IsDeclared)
        IN  /\ Len(lines) = Len(declared)
            /\ \A k \in 1..Len(lines) :
                  /\ lines[k].text = "        " \o declared[k].StartID \o " -> "
                                        \o declared[k].EndID \o " \""
                                        \o escapeQuotes(declared[k].Description) \o "\""
                  /\ relationships[lines[k].note.rel] = declared[k]
            /\ \A i \in 1..Len(text) :
                  IsRelationshipLine(text[i]) => ModelLine(text) < i /\ i < ViewsLine(text)

\* A serialized ledger with two USES entries of different descriptions, one
\* of them with a quote, and an IMPLIED_USE entry between them.
C20_Witness ==
    /\ Serialized
    /\ Len(SelectSeq(returned.text, IsRelationshipLine)) = 2
    /\ ImpliedCount(relationships) >= 1
    /\ \E i \in 1..Len(relationships), j \in 1..Len(relationships), k \in 1..Len(relationships) :
          /\ i < j /\ j < k
          /\ relationships[i].Type = RelUses
          /\ relationships[j].Type = RelImpliedUse
          /\ relationships[k].Type = RelUses
          /\ relationships[k].Description # relationships[i].Description

\* The lines of the text that open a view of kind what for element h.
ViewLines(text, what, h) ==
    {i \in 1..Len(text) : text[i].note = Note(what, h, 0)}

\* h is a System of the registry declared directly under the Design root.
TopLevelSystem(h) ==
    /\ h \in Registry(nodes)
    /\ objs[h].NodeType = NodeTypeSystem
    /\ objs[h].ParentNode = DesignRef

ViewKinds == {"systemContext", "containerView"}

DesignKind == {h \in Registry(nodes) : objs[h].NodeType = NodeTypeDesign}

\* C22: without a node of kind Design in the registry ToStructurizrDSL
\* returns the one comment line and no workspace block; with a Design root
\* it returns a workspace in which no line is written for the root.
C22_NoDesignGivesCommentAndRootHasNoBlock ==
    Serialized =>
        LET text == returned.text
        IN  /\ returned.err = ""
            /\ DesignKind = {} =>
                  text = <<[text |-> "// No design node found", note |-> Plain("comment")]>>
            /\ DesignKind # {} =>
                  /\ text[1].note = Plain("workspace")
                  /\ \A i \in 1..Len(text) : text[i].note.node \notin DesignKind

\* ToStructurizrDSL has returned on a Design whose registry has no node.
C22_Witness ==
    /\ Serialized
    /\ DesignKind = {}
    /\ Len(returned.text) = 1

\* The step is a call of ToStructurizrDSL (a call that returns what the
\* call before it returned, on the same Design, changes no variable).
SerializerStep ==
    /\ lastCall'.op = "Design.ToStructurizrDSL"
    /\ lastCall' # lastCall \/ returned' # returned

\* C23: a call of ToStructurizrDSL leaves the heap of nodes (IDs, names,
\* kinds, tags, labels, IsExternal, parents), the registry, the ledger and
\* the inference flag as they were, however many calls are made.
C23_SerializerLeavesDesignUnchanged ==
    [][SerializerStep =>
          /\ objs' = objs
          /\ nodes' = nodes
          /\ relationships' = relationships
          /\ impliedUseEnabled' = impliedUseEnabled]_vars

\* ToStructurizrDSL has returned on a Design with a System, a Container,
\* inference enabled and a ledger of BELONGS_TO, USES and IMPLIED_USE entries.
C23_Witness ==
    /\ Serialized
    /\ Len(returned.text) > 1
    /\ impliedUseEnabled
    /\ Len(objs) = 3
    /\ Len(relationships) >= 4
    /\ ImpliedCount(relationships) >= 1

\* C24: when every child of a parent got its own local ID, no two elements
\* share a full ID or a registry key, and every element made is still the
\* node the registry holds under its key.
C24_DistinctPairsNeverCollide ==
    \A h \in 1..Len(objs) :
        /\ objs[h].ID \in DOMAIN nodes /\ nodes[objs[h].ID] = h
        /\ \A g \in 1..Len(objs) :
              g # h => /\ FullId(objs, g) # FullId(objs, h)
                       /\ objs[g].ID # objs[h].ID

\* C25: every key of the registry is the FullId of the node stored under it,
\* the identifier the ledger entries and the upserts name the node by.
C25_RegistryKeyIsFullId ==
    \A k \in DOMAIN nodes : k = FullId(objs, nodes[k])

\* The System that owns the Component at address c.
SystemOfComponent(c) == objs[objs[c].container].system

\* The System that owns the Container or Component passed as n.
SystemOfTarget(n) ==
    IF n.dyn = "Container" THEN objs[n.at].system
    ELSE objs[objs[n.at].container].system

\* The last call was Component.Uses, with inference enabled, by a Component
\* of one System on a Container or Component of another System.
C26_Case ==
    /\ lastCall.op = "Component.Uses"
    /\ lastCall.enabled
    /\ lastCall.arg.dyn \in {"Container", "Component"}
    /\ objs[SystemOfComponent(lastCall.self)].ID # objs[SystemOfTarget(lastCall.arg)].ID

\* The entries the last call appended to the ledger.
Appended(call) ==
    {[StartID |-> call.adds[i].StartID, EndID |-> call.adds[i].EndID,
      Type |-> call.adds[i].Type] : i \in {j \in 1..Len(call.adds) :
                                              call.adds[j].post # call.adds[j].pre}}

\* C26: the IMPLIED_USE entry of such a call runs from the System of the
\* calling Component to the System of the target, never the other way.
C26_ImpliedUseFromCallerSystem ==
    C26_Case =>
        LET SA == FullId(objs, SystemOfComponent(lastCall.self))
            SB == FullId(objs, SystemOfTarget(lastCall.arg))
        IN  /\ [StartID |-> SA, EndID |-> SB, Type |-> RelImpliedUse] \in Appended(lastCall)
            /\ [StartID |-> SB, EndID |-> SA, Type |-> RelImpliedUse] \notin Appended(lastCall)

\* The node at address h lies inside the element at address s, at any depth.
RECURSIVE NestedIn(_, _)
NestedIn(h, s) ==
    /\ h >= 1
    /\ \/ objs[h].ParentNode = s
       \/ NestedIn(objs[h].ParentNode, s)

UsesAndUsedByOps ==
    {"Person.Uses", "System.Uses", "System.UsedBy", "Container.Uses", "Container.UsedBy",
     "CustomComponent.Uses", "CustomComponent.UsedBy", "Component.Uses",
     "Component.UsedBy"}

\* The entry e links the System s and an element nested in s, either way.
WithinSystem(e, s) ==
    \E h \in 1..Len(objs) :
        /\ NestedIn(h, s)
        /\ \/ e.StartID = FullId(objs, s) /\ e.EndID = FullId(objs, h)
           \/ e.StartID = FullId(objs, h) /\ e.EndID = FullId(objs, s)

\* C27: with inference enabled, a Uses or UsedBy call appends no IMPLIED_USE
\* entry between a System and an element nested inside that System, in
\* either direction.
C27_NoImpliedUseWithinSystem ==
    (lastCall.op \in UsesAndUsedByOps /\ lastCall.enabled) =>
        \A e \in Appended(lastCall) :
            e.Type = RelImpliedUse =>
                \A s \in Of("System") : ~WithinSystem(e, s)

\* C28: the registry holds exactly one node of kind Design, under the ID of
\* the Design, and that node has no parent.
C28_ExactlyOneDesignNode ==
    /\ DesignID \in DOMAIN nodes
    /\ DesignKind = {nodes[DesignID]}
    /\ objs[nodes[DesignID]].ParentNode = NilRef

\* The texts the runs of ToStructurizrDSL can return in this state.
Texts ==
    {TextOf(objs, relationships, nodeByID, designNode) :
        nodeByID \in NodeByIDs(objs, nodes, {FullId(objs, h) : h \in Registry(nodes)}),
        designNode \in DesignNodes(objs, nodes)}

\* C29: for the Design of any state, all runs of ToStructurizrDSL return one
\* text and all runs of SaveToNeo4j give each relationship endpoint one label.
C29_IndependentOfRegistryOrder ==
    /\ Cardinality(Texts) = 1
    /\ \A i \in 1..Len(relationships) :
          /\ OneLabel(relationships[i].StartID)
          /\ OneLabel(relationships[i].EndID)

\* The step is a call of NodeReference (a call that repeats the call before
\* it and finds the id registered changes no variable).
ReferenceStep ==
    /\ lastCall'.op = "Design.NodeReference"
    /\ lastCall' # lastCall \/ objs' # objs \/ refs' # refs

\* C30: NodeReference(id) returns the node registered under id and leaves
\* heap, registry and ledger unchanged when id is a registry key; otherwise
\* it registers one new node of kind Unknown under id, returns it and adds
\* no ledger entry, so that the next call with id finds that node.
C30_NodeReferenceLooksUpOrAddsOneStub ==
    [][ReferenceStep =>
          LET id  == lastCall'.id
              ret == lastCall'.new
          IN  /\ relationships' = relationships
              /\ ret \in refs'
              /\ id \in DOMAIN nodes' /\ nodes'[id] = ret
              /\ IF id \in DOMAIN nodes
                 THEN /\ ret = nodes[id]
                      /\ nodes' = nodes
                      /\ objs' = objs
                 ELSE /\ ret = Len(objs) + 1
                      /\ objs' = Append(objs, objs'[ret])
                      /\ objs'[ret].NodeType = NodeTypeUnknown
                      /\ objs'[ret].ID = id
                      /\ DOMAIN nodes' = DOMAIN nodes \cup {id}
                      /\ \A k \in DOMAIN nodes : nodes'[k] = nodes[k]]_vars

\* NodeReference has returned a declared System for its registry key, in a
\* Design whose registry also holds a stub made by an earlier NodeReference.
C30_Witness ==
    /\ lastCall.op = "Design.NodeReference"
    /\ objs[lastCall.new].NodeType = NodeTypeSystem
    /\ \E h \in Registry(nodes) \cap refs : objs[h].NodeType = NodeTypeUnknown
    /\ Len(relationships) >= 2

====
